---- MODULE Spec2Model ----
(***************************************************************************)
(* A model of the oxlint JS bridge:                                        *)
(*   - apps/oxlint/src-js/js_config.ts : loadJsConfigs, the parallel       *)
(*     loader of script-based config files;                                *)
(*   - apps/oxlint/src-js/cli.ts : the lazily initialised callback         *)
(*     wrappers handed to the native `lint` call, and the entry point.     *)
(*                                                                         *)
(* JavaScript values are modelled by their kind, strings built by template *)
(* literals by the sequence of their pieces, and a JSON text by the JSON   *)
(* document it encodes (wrapped in a record [json |-> ...]).               *)
(***************************************************************************)
EXTENDS Integers, Sequences, FiniteSets, TLC

(***************************************************************************)
(* Bounds of the model.                                                    *)
(***************************************************************************)
\* Longest `paths` array handed to loadJsConfigs.
MaxPaths == 3

\* Number of callback invocations the native side makes during one `lint`.
MaxCalls == 3

\* The longest `paths` array given to each of two loadJsConfigs invocations
\* that run side by side.
MaxPairPaths == 2

(***************************************************************************)
(* JavaScript values: the shapes a config module's default export takes.   *)
(***************************************************************************)
\* Kinds of default export.  "undefined" is a module without default export,
\* "cyclicObject" a non-null object that JSON.stringify rejects (a reference
\* cycle, a BigInt member).
DefaultExports ==
  {"undefined", "null", "number", "string", "function",
   "emptyObject", "object", "array", "cyclicObject"}

\* JavaScript's `typeof`.
TypeOf(v) ==
  CASE v = "undefined" -> "undefined"
    [] v = "null" -> "object"
    [] v = "number" -> "number"
    [] v = "string" -> "string"
    [] v = "function" -> "function"
    [] OTHER -> "object"

\* An Error object carrying a message, and a thrown value that is no Error.
ErrorOf(msg) == [isError |-> TRUE, message |-> msg]

ThrownNonError == [isError |-> FALSE, message |-> <<>>]

NoReason == [isError |-> FALSE, message |-> <<"(none)">>]

\* utils/utils.ts getErrorMessage: the message of an Error when it has one,
\* a fixed text otherwise; never empty, never throws.
getErrorMessage(err) ==
  IF err.isError /\ err.message # <<>> THEN err.message ELSE <<"Unknown error">>

(***************************************************************************)
(* Completions: how an evaluation ends.                                    *)
(***************************************************************************)
Return(v) == [type |-> "return", value |-> v]

Throw(e) == [type |-> "throw", value |-> e]

(***************************************************************************)
(* JSON.stringify (utils/globals.ts JSONStringify) on the result objects   *)
(* of loadJsConfigs: throws a TypeError on a value it cannot encode,       *)
(* returns the text otherwise.                                             *)
(***************************************************************************)
Serializable(obj) ==
  \/ "Success" \notin DOMAIN obj
  \/ \A i \in DOMAIN obj.Success : obj.Success[i].config # "cyclicObject"

JSONStringify(obj) ==
  IF Serializable(obj)
    THEN Return([json |-> obj])
    ELSE Throw(ErrorOf(<<"Converting circular structure to JSON">>))

(***************************************************************************)
(* The environment of loadJsConfigs: the file system and module loader.    *)
(***************************************************************************)
\* Config paths the native side may pass.  The last one is not absolute and
\* holds a space: `file://a b.ts` has a host with a forbidden code point.
Paths == {"/a.ts", "/b.ts", "a b.ts"}

InvalidUrl == "Invalid URL"

\* `new URL(`file://${path}`).href`.
FileUrl(path) ==
  CASE path = "/a.ts" -> "file:///a.ts"
    [] path = "/b.ts" -> "file:///b.ts"
    [] OTHER -> InvalidUrl

Hrefs == {FileUrl(p) : p \in Paths} \ {InvalidUrl}

\* What `import(href)` does for one module: it never settles, it rejects with
\* some reason, or it fulfils with a module namespace whose `default` has
\* some shape.
ModuleOutcomes ==
  [kind : {"hangs"}, default : {"undefined"}, reason : {NoReason}]
  \cup [kind : {"rejects"}, default : {"undefined"},
        reason : {ErrorOf(<<"Cannot find module">>), ThrownNonError}]
  \cup [kind : {"loads"}, default : DefaultExports, reason : {NoReason}]

\* A module no call has imported yet.
NotImported == [kind |-> "unknown", default |-> "undefined", reason |-> NoReason]

\* The values `paths` takes at run time: an array of paths, or a value with
\* no `map` method (the parameter's type is not checked at run time).
NotAnArray == <<"not an array">>

RECURSIVE SeqsUpTo(_, _)
SeqsUpTo(S, n) ==
  IF n = 0 THEN {<<>>}
  ELSE LET shorter == SeqsUpTo(S, n - 1)
       IN shorter \cup {Append(s, x) : s \in {t \in shorter : Len(t) = n - 1}, x \in S}

PathLists == SeqsUpTo(Paths, MaxPaths)

IsArray(paths) == paths # NotAnArray

(***************************************************************************)
(* State.                                                                  *)
(***************************************************************************)
CfgCallIds == {1, 2}

VARIABLES
  modules,          \* href -> what importing that config module does
  cfg,              \* call id -> the state of that loadJsConfigs invocation
  loadPlugin,       \* cli.ts:7, the lazily bound plugin functions
  setupRuleConfigs, \* cli.ts:8
  lintFile,         \* cli.ts:9
  createWorkspace,  \* cli.ts:10, the lazily bound workspace functions
  destroyWorkspace, \* cli.ts:11
  attempts,         \* specifier -> the host's loads of that module, in order
  importRequests,   \* specifier -> number of `import()` expressions evaluated
  calls,            \* the native side's callback invocations, in order
  success,          \* cli.ts:117, what `lint` resolved to
  exitCode,         \* process.exitCode
  fmt               \* the Prettier plugin's parser: the `parse` call under way

cfgVars == <<modules, cfg>>

markers == <<loadPlugin, setupRuleConfigs, lintFile, createWorkspace, destroyWorkspace>>

cliVars == <<markers, attempts, importRequests, calls, success, exitCode>>

vars == <<cfgVars, cliVars, fmt>>

NoValue == [path |-> "", config |-> "undefined"]

Pending == [status |-> "pending", value |-> NoValue, reason |-> NoReason]

Fulfilled(v) == [status |-> "fulfilled", value |-> v, reason |-> NoReason]

Rejected(r) == [status |-> "rejected", value |-> NoValue, reason |-> r]

\* One invocation: where it stands, its argument, the per-path promises, the
\* indices of the imports in the order they settled, and what the returned
\* promise settled with.
IdleCall ==
  [pc |-> "idle", paths |-> <<>>, results |-> <<>>, order |-> <<>>,
   settled |-> Return(<<>>)]

(***************************************************************************)
(* loadJsConfigs, js_config.ts:33-74.                                      *)
(***************************************************************************)
\* Variant of line 43 without the `config === null` test.
IsConfigObjectNoNullTest(config) == TypeOf(config) = "object"

\* Line 43: the default export must be a non-null object.
IsConfigObject(config) == TypeOf(config) = "object" /\ config # "null"

\* Lines 39-40, the synchronous start of the per-path async function: the
\* URL is built (a TypeError rejects this path's promise) and the import is
\* requested.
StartLoad(path) ==
  IF FileUrl(path) = InvalidUrl
    THEN Rejected(ErrorOf(<<"Invalid URL">>))
    ELSE Pending

\* Lines 40-47, the rest of the per-path async function once the import has
\* settled with `outcome`.
FinishLoad(path, outcome) ==
  IF outcome.kind = "rejects" THEN Rejected(outcome.reason)
  ELSE IF ~IsConfigObject(outcome.default)
    THEN Rejected(ErrorOf(<<"Config at ", path, " must export a default object">>))
    ELSE Fulfilled([path |-> path, config |-> outcome.default])

\* Variant of line 35 joining as Promise.race does: at the first settlement.
SettledAsPromiseRace(results) == \E i \in DOMAIN results : results[i].status # "pending"

\* Variant of line 35 joining as Promise.all does: at the first rejection.
SettledAsPromiseAll(results) ==
  \/ \A i \in DOMAIN results : results[i].status = "fulfilled"
  \/ \E i \in DOMAIN results : results[i].status = "rejected"

\* Line 35: Promise.allSettled resolves once no promise is pending.
AllSettled(results) == \A i \in DOMAIN results : results[i].status # "pending"

\* Variant of lines 54-61 that puts each failure in front (unshift).
RECURSIVE CollectErrorsUnshift(_, _, _, _, _)
CollectErrorsUnshift(paths, results, i, successes, errors) ==
  IF i > Len(results) THEN [successes |-> successes, errors |-> errors]
  ELSE IF results[i].status = "fulfilled"
    THEN CollectErrorsUnshift(paths, results, i + 1, Append(successes, results[i].value), errors)
    ELSE CollectErrorsUnshift(paths, results, i + 1, successes,
                              <<[path |-> paths[i],
                                 error |-> getErrorMessage(results[i].reason)]>> \o errors)

\* Variant of lines 54-61 that puts each success in front (unshift).
RECURSIVE CollectUnshift(_, _, _, _, _)
CollectUnshift(paths, results, i, successes, errors) ==
  IF i > Len(results) THEN [successes |-> successes, errors |-> errors]
  ELSE IF results[i].status = "fulfilled"
    THEN CollectUnshift(paths, results, i + 1, <<results[i].value>> \o successes, errors)
    ELSE CollectUnshift(paths, results, i + 1, successes,
                        Append(errors, [path |-> paths[i],
                                        error |-> getErrorMessage(results[i].reason)]))

\* Variant of lines 54-61 that leaves the loop at the first failure (break).
RECURSIVE CollectFirstError(_, _, _, _, _)
CollectFirstError(paths, results, i, successes, errors) ==
  IF i > Len(results) \/ Len(errors) > 0 THEN [successes |-> successes, errors |-> errors]
  ELSE IF results[i].status = "fulfilled"
    THEN CollectFirstError(paths, results, i + 1, Append(successes, results[i].value), errors)
    ELSE CollectFirstError(paths, results, i + 1, successes,
                           Append(errors, [path |-> paths[i],
                                           error |-> getErrorMessage(results[i].reason)]))

\* Lines 51-61: the loop splitting the outcomes, from index i on.
RECURSIVE Collect(_, _, _, _, _)
Collect(paths, results, i, successes, errors) ==
  IF i > Len(results) THEN [successes |-> successes, errors |-> errors]
  ELSE IF results[i].status = "fulfilled"
    THEN Collect(paths, results, i + 1, Append(successes, results[i].value), errors)
    ELSE Collect(paths, results, i + 1, successes,
                 Append(errors, [path |-> paths[i],
                                 error |-> getErrorMessage(results[i].reason)]))

\* Variant of line 64 with `>=` for `>`.
AnyFailedOrNone(errors) == Len(errors) >= 0

\* Line 64: whether failures are reported.
AnyFailed(errors) == Len(errors) > 0

\* Variant of lines 51-68 that rethrows the first rejection, as awaiting
\* Promise.all would.
AggregateRethrow(paths, results) ==
  LET c == Collect(paths, results, 1, <<>>, <<>>)
      failed == {i \in DOMAIN results : results[i].status = "rejected"}
  IN IF failed # {}
       THEN Throw(results[CHOOSE i \in failed : \A j \in failed : i <= j].reason)
       ELSE JSONStringify([Success |-> c.successes])

\* Lines 51-68: aggregation and serialization of the joined outcomes.
Aggregate(paths, results) ==
  LET c == Collect(paths, results, 1, <<>>, <<>>)
  IN IF AnyFailed(c.errors)
       THEN JSONStringify([Failures |-> c.errors])
       ELSE JSONStringify([Success |-> c.successes])

\* Variant of lines 34 and 69-73 without the catch clause.
NoCatch(completion) == completion

\* Lines 34 and 69-73: the try/catch around the whole body.
TryCatch(completion) ==
  IF completion.type = "throw"
    THEN JSONStringify([Error |-> getErrorMessage(completion.value)])
    ELSE completion

\* The promise an async function returns: resolved by a return, rejected by
\* a throw.
Settle(call, completion) ==
  [call EXCEPT !.pc = IF completion.type = "return" THEN "resolved" ELSE "rejected",
               !.settled = completion]

\* The module map after `paths` have been imported, `env` telling what the
\* import of each module does: a module keeps the outcome it first had.
Imports(paths, env) ==
  [h \in Hrefs |->
     IF modules[h] = NotImported /\ \E i \in DOMAIN paths : FileUrl(paths[i]) = h
       THEN env[h] ELSE modules[h]]

\* Lines 33-49 up to the await: the call with its argument.  `paths.map`
\* throws on a value without `map`; otherwise every path's load is started.
Call(c, paths, env) ==
  /\ cfg[c].pc = "idle"
  /\ IF IsArray(paths)
       THEN /\ cfg' = [cfg EXCEPT ![c] =
                         [@ EXCEPT !.pc = "awaiting", !.paths = paths,
                                   !.results = [i \in DOMAIN paths |-> StartLoad(paths[i])]]]
            /\ modules' = Imports(paths, env)
       ELSE /\ cfg' = [cfg EXCEPT ![c] =
                         Settle([@ EXCEPT !.paths = paths],
                                TryCatch(Throw(ErrorOf(<<"paths.map is not a function">>))))]
            /\ UNCHANGED modules
  /\ UNCHANGED <<cliVars, fmt>>

\* One path's import settles and its async function runs to its end.
ImportSettles(c, i) ==
  /\ cfg[c].pc = "awaiting"
  /\ i \in DOMAIN cfg[c].results
  /\ cfg[c].results[i].status = "pending"
  /\ modules[FileUrl(cfg[c].paths[i])].kind # "hangs"
  /\ cfg' = [cfg EXCEPT ![c].results[i] =
                          FinishLoad(cfg[c].paths[i], modules[FileUrl(cfg[c].paths[i])]),
                        ![c].order = Append(@, i)]
  /\ UNCHANGED <<modules, cliVars, fmt>>

\* Variant of lines 51-68 in which `successes` and `errors` are arrays of the
\* module, not of the call: a call that ends after another one aggregates
\* the other's outcomes in front of its own.
JoinShared(c) ==
  LET o == CHOOSE d \in CfgCallIds : d # c
      earlier == cfg[o].pc = "resolved" /\ IsArray(cfg[o].paths)
  IN /\ cfg[c].pc = "awaiting"
     /\ AllSettled(cfg[c].results)
     /\ cfg' = [cfg EXCEPT ![c] =
                   Settle(@, TryCatch(Aggregate(
                     IF earlier THEN cfg[o].paths \o cfg[c].paths ELSE cfg[c].paths,
                     IF earlier THEN cfg[o].results \o cfg[c].results ELSE cfg[c].results)))]
     /\ UNCHANGED <<modules, cliVars, fmt>>

\* Lines 35 and 51-73: the join, then aggregation inside the try/catch.
Join(c) ==
  /\ cfg[c].pc = "awaiting"
  /\ AllSettled(cfg[c].results)
  /\ cfg' = [cfg EXCEPT ![c] = Settle(@, TryCatch(Aggregate(cfg[c].paths, cfg[c].results)))]
  /\ UNCHANGED <<modules, cliVars, fmt>>

InitCfg ==
  /\ modules = [h \in Hrefs |-> NotImported]
  /\ cfg = [c \in CfgCallIds |-> IdleCall]

NextCfg ==
  \/ /\ cfg[1].pc = "idle"
     /\ \E paths \in PathLists \cup {NotAnArray}, env \in [Hrefs -> ModuleOutcomes] :
          Call(1, paths, env)
  \/ \E i \in 1..(MaxPaths + 1) : ImportSettles(1, i)
  \/ Join(1)

\* The inputs of two invocations side by side: short arrays, and for each
\* module one outcome of every kind that changes the result.
PairPathLists == SeqsUpTo(Paths, MaxPairPaths)

PairOutcomes ==
  {o \in ModuleOutcomes :
     \/ o.kind = "hangs"
     \/ o.kind = "rejects" /\ o.reason.isError
     \/ o.kind = "loads" /\ o.default \in {"object", "cyclicObject"}}

\* Two invocations of loadJsConfigs, each called once at any moment of the
\* other's run: before it, while it waits, or after it has returned.
NextCfg2 ==
  \/ \E c \in CfgCallIds :
       /\ cfg[c].pc = "idle"
       /\ \E paths \in PairPathLists \cup {NotAnArray}, env \in [Hrefs -> PairOutcomes] :
            Call(c, paths, env)
  \/ \E c \in CfgCallIds, i \in 1..(MaxPairPaths + 1) : ImportSettles(c, i)
  \/ \E c \in CfgCallIds : Join(c)

(***************************************************************************)
(* The module loader under cli.ts: dynamic `import()` of the two lazily    *)
(* loaded subsystems.  The host (Node.js) keeps one module per specifier   *)
(* in its load cache: the first import starts the load, and every later    *)
(* import of the specifier joins that load or gets its outcome, a failure  *)
(* included.                                                               *)
(***************************************************************************)
PluginsModule == "./plugins/index.ts"

WorkspaceModule == "./workspace/index.ts"

Subsystems == {PluginsModule, WorkspaceModule}

Null == "null"

\* Variant of `import()` that loads the module afresh on every evaluation,
\* as an import whose specifier differs from call to call does.
ImportModuleAfresh(loads) == Append(loads, "loading")

\* `import(specifier)`, cli.ts:23 and 62: the loads of the module after the
\* expression is evaluated.
ImportModule(loads) == IF loads = <<>> THEN <<"loading">> ELSE loads

(***************************************************************************)
(* The functions the subsystems export (plugins/index.ts and               *)
(* workspace/index.ts): what each may return.                              *)
(***************************************************************************)
Exports ==
  [loadPlugin |-> "plugins.loadPlugin",
   setupRuleConfigs |-> "plugins.setupRuleConfigs",
   lintFile |-> "plugins.lintFile",
   createWorkspace |-> "workspace.createWorkspace",
   destroyWorkspace |-> "workspace.destroyWorkspace"]

ResultsOf(fn) ==
  CASE fn = "plugins.loadPlugin" -> {"JSON: plugin", "JSON: error"}
    [] fn = "plugins.setupRuleConfigs" -> {"null", "error message"}
    [] fn = "plugins.lintFile" -> {"null", "JSON: diagnostics"}
    [] OTHER -> {"undefined"}

\* Arguments the native side passes.
PluginArgs == {<<"/p1.js", "null", "false">>, <<"/p2.js", "alias", "true">>}

WorkspaceArgs == {<<"file:///w1">>, <<"file:///w2">>}

OptionsArgs == {<<"[]">>}

LintArgs == {<<"/f.js", "0", "buffer", "[1]", "[0]", "{}", "{}">>}

(***************************************************************************)
(* cli.ts: the wrappers passed to `lint`.                                  *)
(***************************************************************************)
\* Variant of the tests of lines 22 and 59 that always takes the lazy branch.
AlwaysLoad(marker) == TRUE

\* Lines 22 and 59: the `=== null` test of a marker.
NeedsLoad(marker) == marker = Null

\* The native side calls back only while `lint` runs.
NativeMayCall == success = "pending" /\ Len(calls) < MaxCalls

\* A wrapper call that evaluates `import(specifier).then(...)`: the import is
\* requested and the call waits for it.
StartImport(op, args, specifier) ==
  LET loads == ImportModule(attempts[specifier])
  IN /\ attempts' = [attempts EXCEPT ![specifier] = loads]
     /\ importRequests' = [importRequests EXCEPT ![specifier] = @ + 1]
     /\ calls' = Append(calls, [op |-> op, args |-> args, pc |-> "importing",
                                specifier |-> specifier, attempt |-> Len(loads),
                                invoked |-> <<>>, result |-> "none"])

\* A wrapper call that passes its arguments to the bound function `fn`,
\* which returns `r`.
Delegate(op, args, fn, r) ==
  /\ calls' = Append(calls, [op |-> op, args |-> args, pc |-> "returned",
                             specifier |-> "none", attempt |-> 0,
                             invoked |-> <<[fn |-> fn, args |-> args]>>, result |-> r])
  /\ UNCHANGED <<attempts, importRequests>>

\* debugAssertIsNonNull on an unset marker (lines 40, 80, 109): the call
\* ends with a thrown error.
AssertionFails(op, args) ==
  /\ calls' = Append(calls, [op |-> op, args |-> args, pc |-> "threw",
                             specifier |-> "none", attempt |-> 0,
                             invoked |-> <<>>, result |-> "none"])
  /\ UNCHANGED <<attempts, importRequests>>

\* Lines 21-30.
createWorkspaceWrapper(workspace) ==
  /\ NativeMayCall
  /\ IF NeedsLoad(createWorkspace)
       THEN StartImport("createWorkspace", workspace, WorkspaceModule)
       ELSE \E r \in ResultsOf(createWorkspace) :
              Delegate("createWorkspace", workspace, createWorkspace, r)
  /\ UNCHANGED <<cfgVars, fmt, markers, success, exitCode>>

\* Lines 39-42.
destroyWorkspaceWrapper(workspace) ==
  /\ NativeMayCall
  /\ IF destroyWorkspace = Null
       THEN AssertionFails("destroyWorkspace", workspace)
       ELSE \E r \in ResultsOf(destroyWorkspace) :
              Delegate("destroyWorkspace", workspace, destroyWorkspace, r)
  /\ UNCHANGED <<cfgVars, fmt, markers, success, exitCode>>

\* Lines 54-69.
loadPluginWrapper(args) ==
  /\ NativeMayCall
  /\ IF NeedsLoad(loadPlugin)
       THEN StartImport("loadPlugin", args, PluginsModule)
       ELSE \E r \in ResultsOf(loadPlugin) :
              Delegate("loadPlugin", args, loadPlugin, r)
  /\ UNCHANGED <<cfgVars, fmt, markers, success, exitCode>>

\* Variant of lines 79-82 that loads the plugin subsystem when it is unset.
setupRuleConfigsWrapperLazy(optionsJSON) ==
  /\ NativeMayCall
  /\ IF setupRuleConfigs = Null
       THEN StartImport("setupRuleConfigs", optionsJSON, PluginsModule)
       ELSE \E r \in ResultsOf(setupRuleConfigs) :
              Delegate("setupRuleConfigs", optionsJSON, setupRuleConfigs, r)
  /\ UNCHANGED <<cfgVars, fmt, markers, success, exitCode>>

\* Lines 79-82.
setupRuleConfigsWrapper(optionsJSON) ==
  /\ NativeMayCall
  /\ IF setupRuleConfigs = Null
       THEN AssertionFails("setupRuleConfigs", optionsJSON)
       ELSE \E r \in ResultsOf(setupRuleConfigs) :
              Delegate("setupRuleConfigs", optionsJSON, setupRuleConfigs, r)
  /\ UNCHANGED <<cfgVars, fmt, markers, success, exitCode>>

\* Variant of lines 98-111 that answers an unset marker with an error result.
lintFileWrapperErrorResult(args) ==
  /\ NativeMayCall
  /\ IF lintFile = Null
       THEN /\ calls' = Append(calls, [op |-> "lintFile", args |-> args, pc |-> "returned",
                                       specifier |-> "none", attempt |-> 0,
                                       invoked |-> <<>>, result |-> "JSON: error"])
            /\ UNCHANGED <<attempts, importRequests>>
       ELSE \E r \in ResultsOf(lintFile) :
              Delegate("lintFile", args, lintFile, r)
  /\ UNCHANGED <<cfgVars, fmt, markers, success, exitCode>>

\* Lines 98-111.
lintFileWrapper(args) ==
  /\ NativeMayCall
  /\ IF lintFile = Null
       THEN AssertionFails("lintFile", args)
       ELSE \E r \in ResultsOf(lintFile) :
              Delegate("lintFile", args, lintFile, r)
  /\ UNCHANGED <<cfgVars, fmt, markers, success, exitCode>>

\* The host finishes the load of a module: it is evaluated, or it fails.
ModuleLoadEnds(specifier, n, how) ==
  /\ n \in DOMAIN attempts[specifier]
  /\ attempts[specifier][n] = "loading"
  /\ attempts' = [attempts EXCEPT ![specifier][n] = how]
  /\ UNCHANGED <<cfgVars, fmt, markers, importRequests, calls, success, exitCode>>

\* Variant of lines 25 and 64 in which the callback reads its arguments from
\* a place every call writes: it sees those of the latest call of the load.
ThenCallbackSharedArgs(k) ==
  /\ k \in DOMAIN calls
  /\ calls[k].pc = "importing"
  /\ attempts[calls[k].specifier][calls[k].attempt] = "evaluated"
  /\ IF calls[k].specifier = PluginsModule
       THEN /\ loadPlugin' = Exports.loadPlugin
            /\ lintFile' = Exports.lintFile
            /\ setupRuleConfigs' = Exports.setupRuleConfigs
            /\ UNCHANGED <<createWorkspace, destroyWorkspace>>
       ELSE /\ createWorkspace' = Exports.createWorkspace
            /\ destroyWorkspace' = Exports.destroyWorkspace
            /\ UNCHANGED <<loadPlugin, lintFile, setupRuleConfigs>>
  /\ \E r \in ResultsOf(Exports[calls[k].op]) :
       LET same == {j \in DOMAIN calls : calls[j].specifier = calls[k].specifier}
           latest == CHOOSE j \in same : \A i \in same : i <= j
       IN calls' = [calls EXCEPT ![k].pc = "returned",
                                 ![k].invoked = Append(@, [fn |-> Exports[calls[k].op],
                                                           args |-> calls[latest].args]),
                                 ![k].result = r]
  /\ UNCHANGED <<cfgVars, fmt, attempts, importRequests, success, exitCode>>

\* Variant of line 63 that binds loadPlugin alone.
ThenCallbackLoadPluginOnly(k) ==
  /\ k \in DOMAIN calls
  /\ calls[k].pc = "importing"
  /\ attempts[calls[k].specifier][calls[k].attempt] = "evaluated"
  /\ IF calls[k].specifier = PluginsModule
       THEN /\ loadPlugin' = Exports.loadPlugin
            /\ UNCHANGED <<lintFile, setupRuleConfigs, createWorkspace, destroyWorkspace>>
       ELSE /\ createWorkspace' = Exports.createWorkspace
            /\ destroyWorkspace' = Exports.destroyWorkspace
            /\ UNCHANGED <<loadPlugin, lintFile, setupRuleConfigs>>
  /\ \E r \in ResultsOf(Exports[calls[k].op]) :
       calls' = [calls EXCEPT ![k].pc = "returned",
                              ![k].invoked = Append(@, [fn |-> Exports[calls[k].op],
                                                        args |-> calls[k].args]),
                              ![k].result = r]
  /\ UNCHANGED <<cfgVars, fmt, attempts, importRequests, success, exitCode>>

\* Variant of lines 24 and 63 in which either callback binds all five markers.
ThenCallbackBindsAll(k) ==
  /\ k \in DOMAIN calls
  /\ calls[k].pc = "importing"
  /\ attempts[calls[k].specifier][calls[k].attempt] = "evaluated"
  /\ loadPlugin' = Exports.loadPlugin
  /\ lintFile' = Exports.lintFile
  /\ setupRuleConfigs' = Exports.setupRuleConfigs
  /\ createWorkspace' = Exports.createWorkspace
  /\ destroyWorkspace' = Exports.destroyWorkspace
  /\ \E r \in ResultsOf(Exports[calls[k].op]) :
       calls' = [calls EXCEPT ![k].pc = "returned",
                              ![k].invoked = Append(@, [fn |-> Exports[calls[k].op],
                                                        args |-> calls[k].args]),
                              ![k].result = r]
  /\ UNCHANGED <<cfgVars, fmt, attempts, importRequests, success, exitCode>>

\* Variant of line 24 that binds createWorkspace alone.
ThenCallbackCreateOnly(k) ==
  /\ k \in DOMAIN calls
  /\ calls[k].pc = "importing"
  /\ attempts[calls[k].specifier][calls[k].attempt] = "evaluated"
  /\ IF calls[k].specifier = PluginsModule
       THEN /\ loadPlugin' = Exports.loadPlugin
            /\ lintFile' = Exports.lintFile
            /\ setupRuleConfigs' = Exports.setupRuleConfigs
            /\ UNCHANGED <<createWorkspace, destroyWorkspace>>
       ELSE /\ createWorkspace' = Exports.createWorkspace
            /\ UNCHANGED <<destroyWorkspace, loadPlugin, lintFile, setupRuleConfigs>>
  /\ \E r \in ResultsOf(Exports[calls[k].op]) :
       calls' = [calls EXCEPT ![k].pc = "returned",
                              ![k].invoked = Append(@, [fn |-> Exports[calls[k].op],
                                                        args |-> calls[k].args]),
                              ![k].result = r]
  /\ UNCHANGED <<cfgVars, fmt, attempts, importRequests, success, exitCode>>

\* Lines 23-26 and 62-65, the `then` callback of call k once its import is
\* fulfilled: the markers are bound to the module's exports, then the bound
\* function is called with the arguments of call k.
ThenCallback(k) ==
  /\ k \in DOMAIN calls
  /\ calls[k].pc = "importing"
  /\ attempts[calls[k].specifier][calls[k].attempt] = "evaluated"
  /\ IF calls[k].specifier = PluginsModule
       THEN /\ loadPlugin' = Exports.loadPlugin
            /\ lintFile' = Exports.lintFile
            /\ setupRuleConfigs' = Exports.setupRuleConfigs
            /\ UNCHANGED <<createWorkspace, destroyWorkspace>>
       ELSE /\ createWorkspace' = Exports.createWorkspace
            /\ destroyWorkspace' = Exports.destroyWorkspace
            /\ UNCHANGED <<loadPlugin, lintFile, setupRuleConfigs>>
  /\ \E r \in ResultsOf(Exports[calls[k].op]) :
       calls' = [calls EXCEPT ![k].pc = "returned",
                              ![k].invoked = Append(@, [fn |-> Exports[calls[k].op],
                                                        args |-> calls[k].args]),
                              ![k].result = r]
  /\ UNCHANGED <<cfgVars, fmt, attempts, importRequests, success, exitCode>>

\* The import of call k is rejected: the `then` callback does not run and
\* the promise the wrapper returned is rejected with the import's error.
ImportRejected(k) ==
  /\ k \in DOMAIN calls
  /\ calls[k].pc = "importing"
  /\ attempts[calls[k].specifier][calls[k].attempt] = "failed"
  /\ calls' = [calls EXCEPT ![k].pc = "rejected"]
  /\ UNCHANGED <<cfgVars, fmt, markers, attempts, importRequests, success, exitCode>>

\* Variant of line 129 with the test inverted.
LintResolvesInverted(ok) ==
  /\ success = "pending"
  /\ success' = ok
  /\ exitCode' = IF ok = "true" THEN "1" ELSE exitCode
  /\ UNCHANGED <<cfgVars, fmt, markers, attempts, importRequests, calls>>

\* Lines 117-129: `lint` resolves and the exit code is set on failure.
LintResolves(ok) ==
  /\ success = "pending"
  /\ success' = ok
  /\ exitCode' = IF ok = "false" THEN "1" ELSE exitCode
  /\ UNCHANGED <<cfgVars, fmt, markers, attempts, importRequests, calls>>

InitCli ==
  /\ loadPlugin = Null
  /\ setupRuleConfigs = Null
  /\ lintFile = Null
  /\ createWorkspace = Null
  /\ destroyWorkspace = Null
  /\ attempts = [m \in Subsystems |-> <<>>]
  /\ importRequests = [m \in Subsystems |-> 0]
  /\ calls = <<>>
  /\ success = "pending"
  /\ exitCode = "undefined"

NextCli ==
  \/ \E args \in PluginArgs : loadPluginWrapper(args)
  \/ \E args \in OptionsArgs : setupRuleConfigsWrapper(args)
  \/ \E args \in LintArgs : lintFileWrapper(args)
  \/ \E args \in WorkspaceArgs : createWorkspaceWrapper(args)
  \/ \E args \in WorkspaceArgs : destroyWorkspaceWrapper(args)
  \/ \E m \in Subsystems, n \in 1..MaxCalls, how \in {"evaluated", "failed"} :
       ModuleLoadEnds(m, n, how)
  \/ \E k \in 1..MaxCalls : ThenCallback(k)
  \/ \E k \in 1..MaxCalls : ImportRejected(k)
  \/ \E ok \in {"true", "false"} : LintResolves(ok)

(***************************************************************************)
(* The Prettier plugin: the options `parse` hands to the native formatter. *)
(* A JavaScript value is a record of its type and its text, the text a     *)
(* sequence of tokens; an object is a function from its keys to values.    *)
(***************************************************************************)
JsValue(type, val) == [type |-> type, val |-> val]

Undefined == JsValue("undefined", <<>>)

JsString(text) == JsValue("string", text)

\* `typeof v`.
TypeofValue(v) == IF v.type \in {"null", "array", "object"} THEN "object" ELSE v.type

EmptyObject == [k \in {} |-> Undefined]

\* `key in obj`.
HasProperty(obj, key) == key \in DOMAIN obj

\* `obj[key]`.
Get(obj, key) == IF key \in DOMAIN obj THEN obj[key] ELSE Undefined

\* `obj[key] = v`.
Put(obj, key, v) == [k \in DOMAIN obj \cup {key} |-> IF k = key THEN v ELSE obj[k]]

\* JSON.parse over the tokens of a text.  White space between tokens means
\* nothing; one value must take the whole text.
JsonLiterals == {"null", "true", "1", "\"asc\""}

JsonStrings == {"\"asc\"", "\"order\""}

LiteralType(t) ==
  CASE t = "null" -> "null"
    [] t = "true" -> "boolean"
    [] t = "1" -> "number"
    [] OTHER -> "string"

ParseFailed == [ok |-> FALSE, next |-> 0, type |-> "none"]

RECURSIVE ParseValue(_, _), ParseElements(_, _), ParseMembers(_, _)
\* array elements from token i on, up to the closing bracket
ParseElements(ts, i) ==
  LET v == ParseValue(ts, i)
  IN IF ~v.ok \/ v.next > Len(ts) THEN ParseFailed
     ELSE IF ts[v.next] = "]" THEN [ok |-> TRUE, next |-> v.next + 1, type |-> "array"]
     ELSE IF ts[v.next] = "," THEN ParseElements(ts, v.next + 1)
     ELSE ParseFailed

\* object members from token i on, up to the closing brace
ParseMembers(ts, i) ==
  IF i + 1 > Len(ts) \/ ts[i] \notin JsonStrings \/ ts[i + 1] # ":" THEN ParseFailed
  ELSE LET v == ParseValue(ts, i + 2)
       IN IF ~v.ok \/ v.next > Len(ts) THEN ParseFailed
          ELSE IF ts[v.next] = "}" THEN [ok |-> TRUE, next |-> v.next + 1, type |-> "object"]
          ELSE IF ts[v.next] = "," THEN ParseMembers(ts, v.next + 1)
          ELSE ParseFailed

\* one value from token i on
ParseValue(ts, i) ==
  IF i > Len(ts) THEN ParseFailed
  ELSE IF ts[i] \in JsonLiterals THEN [ok |-> TRUE, next |-> i + 1, type |-> LiteralType(ts[i])]
  ELSE IF ts[i] = "["
    THEN IF i + 1 <= Len(ts) /\ ts[i + 1] = "]"
           THEN [ok |-> TRUE, next |-> i + 2, type |-> "array"]
           ELSE ParseElements(ts, i + 1)
  ELSE IF ts[i] = "{"
    THEN IF i + 1 <= Len(ts) /\ ts[i + 1] = "}"
           THEN [ok |-> TRUE, next |-> i + 2, type |-> "object"]
           ELSE ParseMembers(ts, i + 1)
  ELSE ParseFailed

IsSpace(t) == t = " "

JSONParse(text) ==
  LET ts == SelectSeq(text, LAMBDA t : ~IsSpace(t))
      v == ParseValue(ts, 1)
  IN IF v.ok /\ v.next = Len(ts) + 1
       THEN Return(JsValue(v.type, ts))
       ELSE Throw(ErrorOf(<<"Unexpected token in JSON">>))

\* Variant of lines 34-38 without the try/catch.
restoreJsonOptionNoCatch(source, target, jsonKey, resultKey) ==
  LET jsonValue == Get(source, jsonKey)
  IN IF TypeofValue(jsonValue) # "string" \/ jsonValue.val = <<>>
       THEN Return(target)
       ELSE LET parsed == JSONParse(jsonValue.val)
            IN IF parsed.type = "throw" THEN parsed
               ELSE Return(Put(target, resultKey, parsed.value))

\* Lines 25-39: the completion of the call, a return carrying `target` as
\* the call left it.
restoreJsonOption(source, target, jsonKey, resultKey) ==
  LET jsonValue == Get(source, jsonKey)
  IN IF TypeofValue(jsonValue) # "string" \/ jsonValue.val = <<>>
       THEN Return(target)
       ELSE LET parsed == JSONParse(jsonValue.val)
            IN IF parsed.type = "throw" THEN Return(target)
               ELSE Return(Put(target, resultKey, parsed.value))

\* Lines 49-63.
serializableKeys ==
  <<"useTabs", "tabWidth", "printWidth", "singleQuote", "jsxSingleQuote", "semi",
    "endOfLine", "trailingComma", "bracketSpacing", "bracketSameLine", "arrowParens",
    "quoteProps", "_tailwindPluginEnabled">>

\* Lines 65-69: the loop over the keys, from key i on.
RECURSIVE CopyKeys(_, _, _)
CopyKeys(options, i, result) ==
  IF i > Len(serializableKeys) THEN result
  ELSE IF HasProperty(options, serializableKeys[i])
    THEN CopyKeys(options, i + 1, Put(result, serializableKeys[i], options[serializableKeys[i]]))
    ELSE CopyKeys(options, i + 1, result)

\* Lines 45-77.
extractSerializableOptions(options) ==
  LET copied == CopyKeys(options, 1, EmptyObject)
      first == restoreJsonOption(options, copied,
                                 "_experimentalSortImportsJson", "experimentalSortImports")
  IN IF first.type = "throw" THEN first
     ELSE restoreJsonOption(options, first.value,
                            "_experimentalTailwindcssJson", "experimentalTailwindcss")

\* The options Prettier hands to `parse`: some of the options it knows, some
\* that are not serializable or not the formatter's, and for each of the two
\* JSON options either nothing or one of a few values.
PlainKeys ==
  {"useTabs", "tabWidth", "_tailwindPluginEnabled", "plugins", "parser", "experimentalSortImports"}

PlainValue(key) ==
  CASE key = "useTabs" -> JsValue("boolean", <<"true">>)
    [] key = "tabWidth" -> JsValue("number", <<"2">>)
    [] key = "_tailwindPluginEnabled" -> Undefined
    [] key = "plugins" -> JsValue("array", <<"[", "plugin", "]">>)
    [] key = "parser" -> JsString(<<"babel">>)
    [] OTHER -> JsValue("object", <<"{", "\"order\"", ":", "\"asc\"", "}">>)

ValidJsonTexts ==
  {<<"{", "}">>, <<"null">>, <<" ", "[", "1", ",", "true", "]", " ">>,
   <<"{", "\"order\"", ":", "\"asc\"", "}">>}

InvalidJsonTexts ==
  {<<" ">>, <<"{">>, <<"[", "1", ",", "]">>, <<"{", "\"order\"", "}">>, <<"asc">>}

JsonKeys == {"_experimentalSortImportsJson", "_experimentalTailwindcssJson"}

Absent == JsValue("absent", <<>>)

JsonOptionValues ==
  {Absent, Undefined, JsValue("null", <<"null">>), JsValue("number", <<"1">>),
   JsValue("object", <<"{", "}">>), JsString(<<>>)}
  \cup {JsString(text) : text \in ValidJsonTexts \cup InvalidJsonTexts}

OptionObjects ==
  {[k \in keys \cup {j \in JsonKeys : json[j] # Absent} |->
      IF k \in JsonKeys THEN json[k] ELSE PlainValue(k)] :
     keys \in SUBSET PlainKeys, json \in [JsonKeys -> JsonOptionValues]}

IdleParse == [pc |-> "idle", options |-> EmptyObject, outcome |-> Return(EmptyObject)]

\* Lines 81-98: `parse` is called with Prettier's options, extracts the
\* serializable ones and calls the native formatter with them.
parse(options) ==
  /\ fmt.pc = "idle"
  /\ LET outcome == extractSerializableOptions(options)
     IN fmt' = [pc |-> IF outcome.type = "throw" THEN "threw" ELSE "formatting",
                options |-> options, outcome |-> outcome]
  /\ UNCHANGED <<cfgVars, cliVars>>

\* Lines 89-100: the native formatter resolves and `parse` returns.
formatToDocResolves ==
  /\ fmt.pc = "formatting"
  /\ fmt' = IdleParse
  /\ UNCHANGED <<cfgVars, cliVars>>

InitFmt == fmt = IdleParse

NextFmt ==
  \/ /\ fmt.pc = "idle"
     /\ \E options \in OptionObjects : parse(options)
  \/ formatToDocResolves

(***************************************************************************)
(* Specifications: the config loader alone, the bridge alone, the plugin   *)
(* alone, and all of them.                                                 *)
(***************************************************************************)
Init == InitCfg /\ InitCli /\ InitFmt

Next == NextCfg \/ NextCli \/ NextFmt

Spec == Init /\ [][Next]_vars

SpecCfg == Init /\ [][NextCfg]_vars

SpecCli == Init /\ [][NextCli]_vars

SpecCfg2 == Init /\ [][NextCfg2]_vars

SpecFmt == Init /\ [][NextFmt]_vars

\* loadJsConfigs on the event loop: a settled import's continuation is run,
\* and so is the continuation of the join once every load has settled.
SpecCfgFair ==
  /\ Init
  /\ [][NextCfg]_vars
  /\ WF_vars(\E i \in 1..(MaxPaths + 1) : ImportSettles(1, i))
  /\ WF_vars(Join(1))

(***************************************************************************)
(* Properties of loadJsConfigs.                                            *)
(***************************************************************************)
\* The shapes of default export that are non-null objects.
ObjectShapes == {"emptyObject", "object", "array", "cyclicObject"}

Done(c) == cfg[c].pc \in {"resolved", "rejected"}

Json(c) == cfg[c].settled.value.json

Keys(c) == DOMAIN Json(c)

\* The indices of call c whose import was requested.
Imported(c) == {i \in DOMAIN cfg[c].paths : FileUrl(cfg[c].paths[i]) # InvalidUrl}

\* The module behind input path i of call c.
ModuleAt(c, i) == modules[FileUrl(cfg[c].paths[i])]

FulfilledAt(c) == {i \in DOMAIN cfg[c].results : cfg[c].results[i].status = "fulfilled"}

RejectedAt(c) == {i \in DOMAIN cfg[c].results : cfg[c].results[i].status = "rejected"}

\* Call c was given an array and every one of its loads succeeded.
AllLoadsSucceeded(c) ==
  /\ Done(c)
  /\ IsArray(cfg[c].paths)
  /\ FulfilledAt(c) = DOMAIN cfg[c].paths

\* The returned text is a Success list with one entry per input path, entry i
\* carrying paths[i] and the default export of that path's module.
IsOrderedSuccess(c) ==
  /\ cfg[c].pc = "resolved"
  /\ Keys(c) = {"Success"}
  /\ Len(Json(c).Success) = Len(cfg[c].paths)
  /\ \A i \in DOMAIN cfg[c].paths :
       Json(c).Success[i] = [path |-> cfg[c].paths[i], config |-> ModuleAt(c, i).default]

\* C1 as stated: whenever every path's load succeeds, the returned text is
\* the Success list of the N configs in input order.
C1_AllSucceedGivesSuccess ==
  \A c \in CfgCallIds : AllLoadsSucceeded(c) => IsOrderedSuccess(c)

\* C1, amended: whenever every path's load succeeds and every loaded config
\* can be encoded as JSON, the returned text is the Success list with exactly
\* N entries, entry i holding paths[i] and its config, in input order
\* whatever the order in which the loads settled.
C1_SerializableSuccess ==
  \A c \in CfgCallIds :
    (/\ AllLoadsSucceeded(c)
     /\ \A i \in DOMAIN cfg[c].paths : ModuleAt(c, i).default # "cyclicObject")
    => IsOrderedSuccess(c)

\* Three paths, the first and the last the same file, settled last to first,
\* reported first to last.
C1_Witness ==
  \E c \in CfgCallIds :
    /\ AllLoadsSucceeded(c)
    /\ Len(cfg[c].paths) = 3
    /\ cfg[c].paths[1] = cfg[c].paths[3]
    /\ cfg[c].paths[1] # cfg[c].paths[2]
    /\ cfg[c].order = <<3, 2, 1>>
    /\ IsOrderedSuccess(c)

\* C2: when at least one path of the batch fails, the returned text is a
\* Failures list holding one entry for every failing index, with that path
\* and a non-empty message, and nothing for a path that succeeded.
C2_FailuresListEveryFailure ==
  \A c \in CfgCallIds :
    (Done(c) /\ IsArray(cfg[c].paths) /\ RejectedAt(c) # {})
    => /\ cfg[c].pc = "resolved"
       /\ Keys(c) = {"Failures"}
       /\ Len(Json(c).Failures) = Cardinality(RejectedAt(c))
       /\ \A i \in RejectedAt(c) :
            \E k \in DOMAIN Json(c).Failures : Json(c).Failures[k].path = cfg[c].paths[i]
       /\ \A k \in DOMAIN Json(c).Failures :
            /\ Json(c).Failures[k].error # <<>>
            /\ \A piece \in {Json(c).Failures[k].error[n] : n \in DOMAIN Json(c).Failures[k].error} :
                 piece # ""
            /\ \A i \in FulfilledAt(c) : Json(c).Failures[k].path # cfg[c].paths[i]

\* Two different paths fail, for different reasons, beside one that loads.
C2_Witness ==
  \E c \in CfgCallIds :
    /\ cfg[c].pc = "resolved"
    /\ IsArray(cfg[c].paths)
    /\ Cardinality(RejectedAt(c)) = 2
    /\ Cardinality(FulfilledAt(c)) = 1
    /\ \E i, j \in RejectedAt(c) : cfg[c].results[i].reason # cfg[c].results[j].reason
    /\ \E i \in RejectedAt(c) : ~cfg[c].results[i].reason.isError
    /\ Len(Json(c).Failures) = 2

\* C3: every returned value is an object with exactly one of the keys
\* Success, Failures, Error; a Failures list is never empty.
C3_ExactlyOneKey ==
  \A c \in CfgCallIds :
    cfg[c].pc = "resolved"
    => /\ cfg[c].settled.type = "return"
       /\ Keys(c) \in {{"Success"}, {"Failures"}, {"Error"}}
       /\ ("Failures" \in Keys(c) => Len(Json(c).Failures) > 0)

\* The empty batch: a Success with no entry, not a Failures with none.
C3_Witness ==
  \E c \in CfgCallIds :
    /\ cfg[c].pc = "resolved"
    /\ cfg[c].paths = <<>>
    /\ Keys(c) = {"Success"}
    /\ Json(c).Success = <<>>

\* C4: once a path's module has loaded, the shape of its default export
\* decides the outcome: null, a number, a string, a function or no default
\* export fail that path, and the call then reports it among the Failures;
\* a non-null object, the empty one included, makes that path succeed.
C4_ShapeDecidesOutcome ==
  \A c \in CfgCallIds : \A i \in DOMAIN cfg[c].results :
    (cfg[c].results[i].status # "pending" /\ FileUrl(cfg[c].paths[i]) # InvalidUrl
       /\ ModuleAt(c, i).kind = "loads")
    => /\ ModuleAt(c, i).default \in {"undefined", "null", "number", "string", "function"}
            => /\ cfg[c].results[i].status = "rejected"
               /\ cfg[c].results[i].reason.isError
               /\ cfg[c].paths[i] \in
                    {cfg[c].results[i].reason.message[n] :
                       n \in DOMAIN cfg[c].results[i].reason.message}
               /\ Done(c) => /\ Keys(c) = {"Failures"}
                             /\ \E k \in DOMAIN Json(c).Failures :
                                  Json(c).Failures[k].path = cfg[c].paths[i]
       /\ ModuleAt(c, i).default \in ObjectShapes
            => /\ cfg[c].results[i].status = "fulfilled"
               /\ cfg[c].results[i].value.config = ModuleAt(c, i).default

\* One batch with a null export, which failed, and an empty object, which
\* succeeded.
C4_Witness ==
  \E c \in CfgCallIds : \E i, j \in Imported(c) :
    /\ Done(c)
    /\ ModuleAt(c, i) = [kind |-> "loads", default |-> "null", reason |-> NoReason]
    /\ cfg[c].results[i].status = "rejected"
    /\ ModuleAt(c, j) = [kind |-> "loads", default |-> "emptyObject", reason |-> NoReason]
    /\ cfg[c].results[j].status = "fulfilled"

\* C5: the promise loadJsConfigs returns is never rejected; when it settles
\* it is resolved with a JSON text.
C5_NeverRejects ==
  \A c \in CfgCallIds :
    /\ cfg[c].pc # "rejected"
    /\ Done(c) => /\ cfg[c].settled.type = "return"
                  /\ DOMAIN cfg[c].settled.value = {"json"}

\* A call whose loads all succeeded and whose serialization threw ends
\* resolved.
C5_Witness ==
  \E c \in CfgCallIds :
    /\ cfg[c].pc = "resolved"
    /\ AllLoadsSucceeded(c)
    /\ \E i \in DOMAIN cfg[c].paths : ModuleAt(c, i).default = "cyclicObject"

\* An error was raised outside the per-path handling of call c: before the
\* loads were fanned out (the argument has no `map`), or after the join
\* (no path failed and a config cannot be encoded).
RaisedOutside(c) ==
  \/ ~IsArray(cfg[c].paths)
  \/ /\ RejectedAt(c) = {}
     /\ \E i \in FulfilledAt(c) : ModuleAt(c, i).default = "cyclicObject"

\* C6: an error raised outside the per-path handling gives the single Error
\* string, never a list; an error raised inside one path's load never does.
C6_ErrorOnlyFromOutside ==
  \A c \in CfgCallIds :
    Done(c)
    => /\ RaisedOutside(c) => /\ cfg[c].pc = "resolved"
                              /\ Keys(c) = {"Error"}
                              /\ Json(c).Error # <<>>
       /\ ~RaisedOutside(c) => /\ cfg[c].pc = "resolved"
                               /\ "Error" \notin Keys(c)
       /\ (IsArray(cfg[c].paths) /\ RejectedAt(c) # {}) => "Error" \notin Keys(c)

\* An Error from a failed serialization, after the join of two loads.
C6_Witness ==
  \E c \in CfgCallIds :
    /\ Done(c)
    /\ IsArray(cfg[c].paths)
    /\ Len(cfg[c].paths) = 2
    /\ RaisedOutside(c)
    /\ Keys(c) = {"Error"}

\* C7: from the fan-out on every path of the batch has its load started, and
\* the result exists only once every one of them has settled: each requested
\* import was waited for, whatever failed before it.
C7_JoinWaitsForAll ==
  \A c \in CfgCallIds :
    (cfg[c].pc # "idle" /\ IsArray(cfg[c].paths))
    => /\ DOMAIN cfg[c].results = DOMAIN cfg[c].paths
       /\ \A i \in DOMAIN cfg[c].paths \ Imported(c) : cfg[c].results[i].status = "rejected"
       /\ Done(c) => /\ \A i \in DOMAIN cfg[c].results : cfg[c].results[i].status # "pending"
                     /\ {cfg[c].order[n] : n \in DOMAIN cfg[c].order} = Imported(c)
                     /\ Len(cfg[c].order) = Cardinality(Imported(c))

\* The first import to settle failed, a sibling's import settled after it and
\* succeeded, beside a path that failed before any import settled.
C7_Witness ==
  \E c \in CfgCallIds :
    /\ Done(c)
    /\ Len(cfg[c].paths) = 3
    /\ Len(cfg[c].order) = 2
    /\ cfg[c].results[cfg[c].order[1]].status = "rejected"
    /\ cfg[c].results[cfg[c].order[2]].status = "fulfilled"
    /\ Imported(c) # DOMAIN cfg[c].paths

(***************************************************************************)
(* Properties of the lazy loading in cli.ts.                               *)
(***************************************************************************)
CallsOf(op) == {k \in DOMAIN calls : calls[k].op = op}

\* The calls that went through an import of `specifier`.
LazyCalls(specifier) == {k \in DOMAIN calls : calls[k].specifier = specifier}

C9_NoLoadBeforeFirstUse ==
  /\ importRequests[PluginsModule] <= Cardinality(CallsOf("loadPlugin"))
  /\ importRequests[WorkspaceModule] <= Cardinality(CallsOf("createWorkspace"))
  /\ \A m \in Subsystems : Len(attempts[m]) <= importRequests[m]
  /\ \A k \in CallsOf("setupRuleConfigs") \cup CallsOf("lintFile") \cup CallsOf("destroyWorkspace") :
       calls[k].specifier = "none"
  /\ (CallsOf("loadPlugin") = {}) => (loadPlugin = Null /\ attempts[PluginsModule] = <<>>)
  /\ (CallsOf("createWorkspace") = {}) => (createWorkspace = Null /\ attempts[WorkspaceModule] = <<>>)

\* setupRuleConfigs, lintFile and destroyWorkspace have all been called and
\* nothing has been imported.
C9_Witness ==
  /\ CallsOf("setupRuleConfigs") # {}
  /\ CallsOf("lintFile") # {}
  /\ CallsOf("destroyWorkspace") # {}
  /\ \A m \in Subsystems : importRequests[m] = 0 /\ attempts[m] = <<>>

\* The marker a wrapper tests before it loads `specifier`.
MarkerOf(specifier) == IF specifier = PluginsModule THEN loadPlugin ELSE createWorkspace

\* C10: once a subsystem's functions are bound, no step imports or loads its
\* module again, and every loadPlugin (createWorkspace) call returns at once
\* what the bound function returns for the call's arguments.
C10_BoundCallsSkipTheLoad ==
  [][\A m \in Subsystems :
       MarkerOf(m) # Null
       => /\ importRequests'[m] = importRequests[m]
          /\ attempts'[m] = attempts[m]
          /\ (/\ Len(calls') = Len(calls) + 1
              /\ calls'[Len(calls')].op = (IF m = PluginsModule THEN "loadPlugin"
                                                                ELSE "createWorkspace"))
             => /\ calls'[Len(calls')].pc = "returned"
                /\ calls'[Len(calls')].invoked =
                     <<[fn |-> MarkerOf(m), args |-> calls'[Len(calls')].args]>>]_vars

\* A loadPlugin call that loaded the subsystem, then one that did not.
C10_Witness ==
  \E j, k \in CallsOf("loadPlugin") :
    /\ j < k
    /\ calls[j].specifier = PluginsModule
    /\ calls[j].pc = "returned"
    /\ calls[k].specifier = "none"
    /\ calls[k].pc = "returned"
    /\ importRequests[PluginsModule] = 1

\* The call a step adds, when it adds one.
AddsCall == Len(calls') = Len(calls) + 1

NewCall == calls'[Len(calls')]

\* C11: the promise a loadPlugin call returns is never rejected, and once
\* settled it holds a JSON payload, a success or an error.
C11_LoadPluginNeverRejects ==
  \A k \in CallsOf("loadPlugin") :
    /\ calls[k].pc # "rejected"
    /\ calls[k].pc = "returned" => calls[k].result \in {"JSON: plugin", "JSON: error"}

\* C12: a setupRuleConfigs or lintFile call made while the plugin subsystem
\* is not bound ends with a thrown assertion error: it delegates to nothing,
\* has no result value, and no later step (the end of the load included)
\* changes how it ended.
C12_UnboundCallIsFatal ==
  [][/\ (AddsCall /\ NewCall.op \in {"setupRuleConfigs", "lintFile"} /\ loadPlugin = Null)
        => /\ NewCall.pc = "threw"
           /\ NewCall.invoked = <<>>
           /\ NewCall.result = "none"
     /\ \A k \in DOMAIN calls : calls[k].pc = "threw" => calls'[k] = calls[k]]_vars

\* A lintFile call made while a loadPlugin call was waiting on the load: the
\* load has ended since and bound the markers, and the lintFile call is still
\* the thrown error it was.
C12_Witness ==
  \E j \in CallsOf("loadPlugin"), k \in CallsOf("lintFile") :
    /\ j < k
    /\ calls[j].specifier = PluginsModule
    /\ calls[j].pc = "returned"
    /\ lintFile # Null
    /\ calls[k].pc = "threw"
    /\ calls[k].result = "none"

\* A destroyWorkspace call that reached the bound function with its URI.
Delegated(call) ==
  /\ call.pc = "returned"
  /\ call.invoked = <<[fn |-> "workspace.destroyWorkspace", args |-> call.args]>>

\* C13 as stated: every destroyWorkspace call that comes after some
\* createWorkspace call is delegated, without an assertion failure.
C13_DestroyAfterAnyCreateCall ==
  \A k \in CallsOf("destroyWorkspace") :
    (\E j \in CallsOf("createWorkspace") : j < k) => Delegated(calls[k])

\* C13, amended: every destroyWorkspace call made once some createWorkspace
\* call has resolved is delegated synchronously with its own URI, without an
\* assertion failure, whether or not that URI was ever created.
C13_DestroyAfterCreateResolved ==
  [][(/\ AddsCall
      /\ NewCall.op = "destroyWorkspace"
      /\ \E j \in CallsOf("createWorkspace") : calls[j].pc = "returned")
     => Delegated(NewCall)]_vars

\* A delegated destroyWorkspace of a URI that no createWorkspace call named.
C13_Witness ==
  \E k \in CallsOf("destroyWorkspace") :
    /\ Delegated(calls[k])
    /\ \E j \in CallsOf("createWorkspace") : j < k /\ calls[j].pc = "returned"
    /\ \A j \in CallsOf("createWorkspace") : calls[j].args # calls[k].args

\* Some import of call c never settles.
HasHang(c) ==
  /\ cfg[c].pc # "idle"
  /\ IsArray(cfg[c].paths)
  /\ \E i \in Imported(c) : ModuleAt(c, i).kind = "hangs"

\* C14: a call all of whose per-path loads settle is eventually resolved,
\* and a call one of whose loads never settles is never resolved: nothing
\* bounds the wait.
C14_ResolvesIffAllLoadsSettle ==
  /\ (cfg[1].pc = "awaiting" /\ ~HasHang(1)) ~> Done(1)
  /\ [](HasHang(1) => ~Done(1))

\* Three loads, two of them settled, one a failure, and the third hanging:
\* the call is still waiting.
C14_Witness ==
  /\ cfg[1].pc = "awaiting"
  /\ HasHang(1)
  /\ Len(cfg[1].paths) = 3
  /\ Cardinality(FulfilledAt(1)) = 1
  /\ Cardinality(RejectedAt(1)) = 1

\* The calls that evaluated `import()`: they triggered a load or waited on one.
AllLazyCalls == {k \in DOMAIN calls : calls[k].specifier # "none"}

PluginMarkers == <<loadPlugin, lintFile, setupRuleConfigs>>

WorkspaceMarkers == <<createWorkspace, destroyWorkspace>>

\* C16: the three plugin markers are all unset or all bound, the two
\* workspace markers are both unset or both bound, no bound marker is ever
\* changed, and once some loadPlugin call has resolved every lintFile or
\* setupRuleConfigs call made from then on passes the assertion.
C16_MarkersBoundTogetherForGood ==
  /\ [](/\ PluginMarkers \in {<<Null, Null, Null>>,
                              <<Exports.loadPlugin, Exports.lintFile, Exports.setupRuleConfigs>>}
        /\ WorkspaceMarkers \in {<<Null, Null>>,
                                 <<Exports.createWorkspace, Exports.destroyWorkspace>>})
  /\ [][/\ \A n \in 1..3 : PluginMarkers[n] # Null => PluginMarkers'[n] = PluginMarkers[n]
        /\ \A n \in 1..2 : WorkspaceMarkers[n] # Null => WorkspaceMarkers'[n] = WorkspaceMarkers[n]
        /\ (/\ \E j \in CallsOf("loadPlugin") : calls[j].pc = "returned"
            /\ AddsCall
            /\ NewCall.op \in {"lintFile", "setupRuleConfigs"})
           => /\ NewCall.pc = "returned"
              /\ NewCall.invoked = <<[fn |-> Exports[NewCall.op], args |-> NewCall.args]>>]_vars

\* A loadPlugin call resolved, then setupRuleConfigs and lintFile were both
\* called and both delegated.
C16_Witness ==
  \E j \in CallsOf("loadPlugin"), k \in CallsOf("setupRuleConfigs"), l \in CallsOf("lintFile") :
    /\ j < k
    /\ k < l
    /\ calls[j].specifier = PluginsModule
    /\ calls[j].pc = "returned"
    /\ calls[k].pc = "returned"
    /\ calls[l].pc = "returned"

\* C17: a step that changes the workspace markers leaves the plugin markers
\* alone and the other way round; no createWorkspace call, new or
\* continuing, changes a plugin marker and no loadPlugin call a workspace
\* marker.  So while only workspace operations have been called every
\* lintFile and setupRuleConfigs call fails its assertion, and while only
\* plugin operations have been called every destroyWorkspace call does.
C17_SubsystemsLoadIndependently ==
  /\ [][/\ WorkspaceMarkers' # WorkspaceMarkers => PluginMarkers' = PluginMarkers
        /\ PluginMarkers' # PluginMarkers => WorkspaceMarkers' = WorkspaceMarkers
        /\ \A k \in DOMAIN calls' :
             (k \notin DOMAIN calls \/ calls'[k] # calls[k])
             => /\ calls'[k].op = "createWorkspace" => PluginMarkers' = PluginMarkers
                /\ calls'[k].op = "loadPlugin" => WorkspaceMarkers' = WorkspaceMarkers]_vars
  /\ [](CallsOf("loadPlugin") = {}
          => /\ PluginMarkers = <<Null, Null, Null>>
             /\ \A k \in CallsOf("lintFile") \cup CallsOf("setupRuleConfigs") :
                  calls[k].pc = "threw")
  /\ [](CallsOf("createWorkspace") = {}
          => /\ WorkspaceMarkers = <<Null, Null>>
             /\ \A k \in CallsOf("destroyWorkspace") : calls[k].pc = "threw")

\* After a createWorkspace call resolved and bound the workspace markers, a
\* lintFile call still failed its assertion.
C17_Witness ==
  \E j \in CallsOf("createWorkspace"), k \in CallsOf("lintFile") :
    /\ j < k
    /\ calls[j].pc = "returned"
    /\ WorkspaceMarkers = <<Exports.createWorkspace, Exports.destroyWorkspace>>
    /\ CallsOf("loadPlugin") = {}
    /\ calls[k].pc = "threw"
    /\ PluginMarkers = <<Null, Null, Null>>

\* The n-th failing index of call c, counting in input order.
NthRejected(c, n) ==
  CHOOSE i \in RejectedAt(c) : Cardinality({j \in RejectedAt(c) : j <= i}) = n

\* C18: in a Failures result there is one entry for each failing index, the
\* n-th entry built from the n-th failing index in input order: it carries
\* that index's path and the message of that index's own failure, whatever
\* the order in which the loads settled, so a path given k times and failing
\* each time has k entries.
C18_FailuresInInputOrder ==
  \A c \in CfgCallIds :
    (cfg[c].pc = "resolved" /\ IsArray(cfg[c].paths) /\ "Failures" \in Keys(c))
    => /\ Len(Json(c).Failures) = Cardinality(RejectedAt(c))
       /\ \A n \in DOMAIN Json(c).Failures :
            Json(c).Failures[n] =
              [path |-> cfg[c].paths[NthRejected(c, n)],
               error |-> getErrorMessage(cfg[c].results[NthRejected(c, n)].reason)]

\* The same path given first and last around another one, all three failing,
\* settled last to first: three entries, in input order.
C18_Witness ==
  \E c \in CfgCallIds :
    /\ cfg[c].pc = "resolved"
    /\ Len(cfg[c].paths) = 3
    /\ cfg[c].paths[1] = cfg[c].paths[3]
    /\ cfg[c].paths[1] # cfg[c].paths[2]
    /\ cfg[c].order = <<3, 2, 1>>
    /\ "Failures" \in Keys(c)
    /\ Len(Json(c).Failures) = 3
    /\ Json(c).Failures[1].path = cfg[c].paths[1]
    /\ Json(c).Failures[2].path = cfg[c].paths[2]
    /\ Json(c).Failures[3].path = cfg[c].paths[1]
    /\ Json(c).Failures[1].error # Json(c).Failures[2].error

\* What call c returns when it runs alone on its own `paths`, each path's
\* load ending as the module behind it does.
Alone(c) ==
  IF ~IsArray(cfg[c].paths)
    THEN TryCatch(Throw(ErrorOf(<<"paths.map is not a function">>)))
    ELSE TryCatch(Aggregate(
           cfg[c].paths,
           [i \in DOMAIN cfg[c].paths |->
              IF FileUrl(cfg[c].paths[i]) = InvalidUrl
                THEN StartLoad(cfg[c].paths[i])
                ELSE FinishLoad(cfg[c].paths[i], ModuleAt(c, i))]))

\* C19: of two invocations, one after the other or overlapping, each returns
\* what it returns alone on its own paths with the same per-path outcomes,
\* with as many entries as its own paths and none of the other's; no step of
\* an invocation changes a marker or anything else of the bridge.
C19_InvocationsShareNoState ==
  /\ [](\A c \in CfgCallIds :
          Done(c)
          => /\ cfg[c].settled = Alone(c)
             /\ (IsArray(cfg[c].paths) /\ "Success" \in Keys(c))
                  => Len(Json(c).Success) = Len(cfg[c].paths)
             /\ (IsArray(cfg[c].paths) /\ "Failures" \in Keys(c))
                  => Len(Json(c).Failures) <= Len(cfg[c].paths))
  /\ [][/\ markers' = markers
        /\ cfg' # cfg => UNCHANGED cliVars
        /\ \A c \in CfgCallIds : Done(c) => cfg'[c] = cfg[c]]_vars

\* Both invocations have returned, both having loaded the same first path:
\* one a Failures for its second path alone, the other a Success for the
\* shared path alone.
C19_Witness ==
  /\ cfg[1].pc = "resolved"
  /\ cfg[2].pc = "resolved"
  /\ Len(cfg[1].paths) = 2
  /\ Len(cfg[2].paths) = 1
  /\ cfg[1].paths[1] = cfg[2].paths[1]
  /\ Keys(1) = {"Failures"}
  /\ Keys(2) = {"Success"}
  /\ Len(Json(1).Failures) = 1
  /\ Json(1).Failures[1].path = cfg[1].paths[2]
  /\ Len(Json(2).Success) = 1
  /\ Json(2).Success[1].path = cfg[2].paths[1]

\* C20: the exit code is set to 1 exactly when `lint` has resolved to false;
\* it is untouched while `lint` is pending and once it has resolved to true,
\* and no step but the resolution of `lint` changes it.
C20_ExitCodeFollowsLint ==
  /\ [](/\ success = "pending" => exitCode = "undefined"
        /\ success = "true" => exitCode = "undefined"
        /\ success = "false" => exitCode = "1")
  /\ [][exitCode' # exitCode => (success = "pending" /\ success' = "false")]_vars

\* `lint` resolved to false after it had called the bridge, and the exit
\* code is 1.
C20_Witness ==
  /\ success = "false"
  /\ exitCode = "1"
  /\ calls # <<>>

(***************************************************************************)
(* Properties of extractSerializableOptions.                               *)
(***************************************************************************)
RestoredKeys == {"experimentalSortImports", "experimentalTailwindcss"}

JsonKeyOf(resultKey) ==
  IF resultKey = "experimentalSortImports" THEN "_experimentalSortImportsJson"
                                           ELSE "_experimentalTailwindcssJson"

\* C21: extractSerializableOptions never throws; the keys of the object it
\* returns are among the thirteen whitelisted keys and the two restored
\* ones; a restored key is there only when its JSON option is a non-empty
\* string of valid JSON, so a JSON option that is not a string, is empty or
\* does not parse leaves the result without that key.
C21_OnlyWhitelistedAndParsedKeys ==
  fmt.pc # "idle"
  => /\ fmt.pc # "threw"
     /\ fmt.outcome.type = "return"
     /\ DOMAIN fmt.outcome.value
          \subseteq {serializableKeys[i] : i \in DOMAIN serializableKeys} \cup RestoredKeys
     /\ \A key \in RestoredKeys :
          LET given == Get(fmt.options, JsonKeyOf(key))
          IN /\ key \in DOMAIN fmt.outcome.value
                  => /\ given.type = "string"
                     /\ given.val # <<>>
                     /\ given.val \in ValidJsonTexts
             /\ (given.type # "string" \/ given.val = <<>> \/ given.val \in InvalidJsonTexts)
                  => key \notin DOMAIN fmt.outcome.value

\* Options holding an `experimentalSortImports` object of their own and an
\* unparsable sort-imports JSON, beside a valid Tailwind JSON and the
\* `plugins` array: only the Tailwind key is restored, and `plugins` and the
\* object are left out.
C21_Witness ==
  /\ fmt.pc = "formatting"
  /\ {"plugins", "experimentalSortImports", "useTabs"} \subseteq DOMAIN fmt.options
  /\ Get(fmt.options, "_experimentalSortImportsJson") = JsString(<<"{">>)
  /\ Get(fmt.options, "_experimentalTailwindcssJson") = JsString(<<"{", "}">>)
  /\ DOMAIN fmt.outcome.value = {"useTabs", "experimentalTailwindcss"}
  /\ fmt.outcome.value["experimentalTailwindcss"] = JsValue("object", <<"{", "}">>)

====
